---- MODULE Spec2Model ----
(***************************************************************************)
(* LLM Token Budget Planner (src/app.js): the State store, the Calculator  *)
(* (calculateAll / calculateCost) and the App controller's handlers.       *)
(*                                                                         *)
(* Numbers.  A JavaScript number is modelled as an exact rational          *)
(* <<n, d>> in lowest terms with d > 0, or NaN == <<0, 0>>.  Arithmetic is *)
(* exact: the rounding of IEEE-754 doubles is not modelled.  Every         *)
(* division of the program is by the constant 1000 or by a value the code  *)
(* has just tested to be > 0, so no infinity arises.                       *)
(*                                                                         *)
(* Objects.  A JavaScript object is a record; a property that is missing   *)
(* (undefined) is a field that is not in the record's DOMAIN.              *)
(***************************************************************************)
EXTENDS Integers, Sequences, FiniteSets, TLC

VARIABLES
    state,          \* State.currentState: vendor_plans, environments, plan_assignment
    results,        \* what the latest call of Calculator.calculateAll returned
    earlier,        \* the calls of calculateAll so far: argument and what was returned
    dom,            \* the state the tables on the page were last rendered from
    debounceTimer,  \* App.debounceTimer: the pending timeout and the element it holds
    now,            \* Date.now(), in ms since the page was loaded
    events,         \* number of clicks and input events the user still makes
    localStorage    \* the item STATE_KEY of localStorage: <<>> none, <<json>> saved

vars == <<state, results, earlier, dom, debounceTimer, now, events, localStorage>>

---------------------------------------------------------------------------
(* Numbers *)

NaN == <<0, 0>>

IsNaN(a) == a[2] = 0

Abs(i) == IF i < 0 THEN -i ELSE i

RECURSIVE GCD(_, _)
GCD(a, b) == IF b = 0 THEN a ELSE GCD(b, a % b)

\* the rational n/d (d > 0) in lowest terms
R(n, d) == LET g == GCD(Abs(n), d) IN <<n \div g, d \div g>>

Whole(n) == <<n, 1>>

Zero == Whole(0)

One == Whole(1)

\* a + b
Add(a, b) ==
    IF IsNaN(a) \/ IsNaN(b) THEN NaN
    ELSE LET g == GCD(a[2], b[2])
             l == (a[2] \div g) * b[2]
         IN  R(a[1] * (l \div a[2]) + b[1] * (l \div b[2]), l)

Neg(a) == <<-a[1], a[2]>>

\* a - b
Sub(a, b) == Add(a, Neg(b))

\* a * b
Mul(a, b) ==
    IF IsNaN(a) \/ IsNaN(b) THEN NaN
    ELSE LET g1 == GCD(Abs(a[1]), b[2])
             g2 == GCD(Abs(b[1]), a[2])
         IN  R((a[1] \div g1) * (b[1] \div g2), (a[2] \div g2) * (b[2] \div g1))

\* a / b, where the program only ever divides by a value > 0
Div(a, b) ==
    IF IsNaN(a) \/ IsNaN(b) \/ b[1] <= 0 THEN NaN
    ELSE Mul(a, <<b[2], b[1]>>)

\* a < b, a <= b, a > b, a >= b: every comparison with NaN is false
Lt(a, b) == ~IsNaN(a) /\ ~IsNaN(b) /\ a[1] * b[2] < b[1] * a[2]

Le(a, b) == ~IsNaN(a) /\ ~IsNaN(b) /\ a[1] * b[2] <= b[1] * a[2]

Gt(a, b) == Lt(b, a)

Ge(a, b) == Le(b, a)

\* Math.max(a, b), Math.min(a, b): NaN when an argument is NaN
MathMax(a, b) == IF IsNaN(a) \/ IsNaN(b) THEN NaN ELSE IF Lt(a, b) THEN b ELSE a

MathMin(a, b) == IF IsNaN(a) \/ IsNaN(b) THEN NaN ELSE IF Lt(b, a) THEN b ELSE a

RECURSIVE Pow10(_)
Pow10(k) == IF k = 0 THEN 1 ELSE 10 * Pow10(k - 1)

\* Number.prototype.toFixed(k): the decimal with k fraction digits nearest to
\* x, a tie going to the larger magnitude.  The string of digits is modelled
\* by the integer it spells with the decimal point removed:
\* (3.4936).toFixed(2) = "3.49" is [digits |-> 349, frac |-> 2].
toFixed(x, k) ==
    IF IsNaN(x) THEN [digits |-> 0, frac |-> -1]
    ELSE LET m == Abs(x[1]) * Pow10(k)
             q == (2 * m + x[2]) \div (2 * x[2])
         IN  [digits |-> IF x[1] < 0 THEN -q ELSE q, frac |-> k]

---------------------------------------------------------------------------
(* JavaScript property access *)

\* obj.key used as a number: undefined converts to NaN
Num(obj, key) == IF key \in DOMAIN obj THEN obj[key] ELSE NaN

\* obj.key ?? dflt
Nullish(obj, key, dflt) == IF key \in DOMAIN obj THEN obj[key] ELSE dflt

\* obj.key || dflt, for a numeric property: undefined, 0 and NaN are falsy
OrElse(obj, key, dflt) ==
    IF key \in DOMAIN obj /\ ~IsNaN(obj[key]) /\ obj[key] # Zero THEN obj[key] ELSE dflt

\* the properties `keys` of obj that are defined, as a record
Pick(obj, keys) == [k \in keys \cap DOMAIN obj |-> obj[k]]

\* the record r extended with the fields of s (s wins): { ...r, ...s }
Merge(r, s) == [k \in DOMAIN r \cup DOMAIN s |-> IF k \in DOMAIN s THEN s[k] ELSE r[k]]

---------------------------------------------------------------------------
(* Calculator.calculateCost *)

Thousand == Whole(1000)

\* a variant of tokens_after_free without the clamp at 0
tokens_after_free_unclamped(total_tokens, free_tier) ==
    Sub(total_tokens, free_tier)

\* Math.max(0, total_tokens - free_tier)
tokens_after_free(total_tokens, free_tier) ==
    MathMax(Zero, Sub(total_tokens, free_tier))

\* tokens_after_free / total_tokens: the ratio of the tokens that are not free
free_tier_ratio(total_tokens, free_tier) ==
    Div(tokens_after_free(total_tokens, free_tier), total_tokens)

\* (prompt / 1000 * price_prompt_per_1k) + (completion / 1000 * price_completion_per_1k)
priced(prompt, completion, plan) ==
    Add(Mul(Div(prompt, Thousand), Num(plan, "price_prompt_per_1k")),
        Mul(Div(completion, Thousand), Num(plan, "price_completion_per_1k")))

\* a variant of costAfterFreeTier that takes the free tier off the prompt
\* tokens only
costAfterFreeTierPromptOnly(prompt_tokens, completion_tokens, plan) ==
    LET total_tokens == Add(prompt_tokens, completion_tokens)
        free_tier    == OrElse(plan, "free_tier_tokens", Zero)
        scaled       == Gt(free_tier, Zero) /\ Gt(total_tokens, Zero)
    IN  priced(IF scaled THEN MathMax(Zero, Sub(prompt_tokens, free_tier))
                         ELSE prompt_tokens,
               completion_tokens, plan)

\* Step 6.1: the cost of the billable tokens; with a free tier and some tokens,
\* both counts are scaled by the free-tier ratio
costAfterFreeTier(prompt_tokens, completion_tokens, plan) ==
    LET total_tokens == Add(prompt_tokens, completion_tokens)
        free_tier    == OrElse(plan, "free_tier_tokens", Zero)
        scaled       == Gt(free_tier, Zero) /\ Gt(total_tokens, Zero)
        billable_prompt_tokens ==
            IF scaled THEN Mul(prompt_tokens, free_tier_ratio(total_tokens, free_tier))
                      ELSE prompt_tokens
        billable_completion_tokens ==
            IF scaled THEN Mul(completion_tokens, free_tier_ratio(total_tokens, free_tier))
                      ELSE completion_tokens
    IN  priced(billable_prompt_tokens, billable_completion_tokens, plan)

\* a variant of finalCost that always charges the whole commit
finalCostWholeCommit(cost_after_free_tier, plan) ==
    LET commit == OrElse(plan, "monthly_commit_credit", Zero)
    IN  IF Gt(commit, Zero)
        THEN Add(commit,
                 Mul(MathMax(Zero, Sub(cost_after_free_tier, commit)),
                     OrElse(plan, "overage_multiplier", One)))
        ELSE cost_after_free_tier

\* Step 6.2: monthly_commit_credit and overage
finalCost(cost_after_free_tier, plan) ==
    LET commit == OrElse(plan, "monthly_commit_credit", Zero)
    IN  IF Gt(commit, Zero)
        THEN LET overage_amount     == MathMax(Zero, Sub(cost_after_free_tier, commit))
                 overage_multiplier == OrElse(plan, "overage_multiplier", One)
                 overage_cost       == Mul(overage_amount, overage_multiplier)
             IN  Add(MathMin(cost_after_free_tier, commit), overage_cost)
        ELSE cost_after_free_tier

calculateCost(prompt_tokens, completion_tokens, plan) ==
    LET cost_after_free_tier == costAfterFreeTier(prompt_tokens, completion_tokens, plan)
    IN  [raw_cost             |-> priced(prompt_tokens, completion_tokens, plan),
         cost_after_free_tier |-> cost_after_free_tier,
         final_cost           |-> finalCost(cost_after_free_tier, plan)]

---------------------------------------------------------------------------
(* Calculator.calculateAll *)

\* `${obj.key}` in a template literal
Str(obj, key) == IF key \in DOMAIN obj THEN obj[key] ELSE "undefined"

\* the one-property object { name: obj.key }, empty when obj.key is undefined
Prop(name, obj, key) == [k \in (IF key \in DOMAIN obj THEN {name} ELSE {}) |-> obj[key]]

\* an identifier that may be undefined: <<>> is undefined, <<s>> the string s
idOf(obj) == IF "id" \in DOMAIN obj THEN <<obj.id>> ELSE <<>>

\* plan_assignment[env.id]: a property key is a string, undefined reads the
\* key "undefined"
planIdOf(plan_assignment, env) ==
    LET key == Str(env, "id")
    IN  IF key \in DOMAIN plan_assignment THEN <<plan_assignment[key]>> ELSE <<>>

\* plansMap.get(planId), plansMap == new Map(vendor_plans.map(p => [p.id, p])):
\* <<>> when the map has no such key, else <<plan>>, the last plan with that id
plansMapGet(vendor_plans, planId) ==
    LET hits == {i \in 1..Len(vendor_plans) : idOf(vendor_plans[i]) = planId}
    IN  IF hits = {} THEN <<>>
        ELSE <<vendor_plans[CHOOSE i \in hits : \A j \in hits : j <= i]>>

\* the record pushed for an environment with no plan
errorResult(env) ==
    Merge(Merge(Prop("env_id", env, "id"), Prop("env_name", env, "env_name")),
          [error |-> "No valid plan assigned.", status |-> "N/A"])

CacheSavingsDefault == R(8, 10)

CompletionShareDefault == R(4, 10)

ThresholdsDefault == [warn |-> R(8, 10), critical |-> One]

\* a variant of monthlyTokens that discounts the context by the hit rate alone
monthlyTokensNoSavingsFactor(env) ==
    Mul(Mul(Num(env, "requests_per_day"),
            Add(Num(env, "avg_tokens_per_request"),
                Mul(Num(env, "context_tokens"), Sub(One, Num(env, "cache_hit_rate"))))),
        Num(env, "days_per_month"))

\* 1) and 2): monthly tokens of an environment
monthlyTokens(env) ==
    LET cache_savings_factor == Nullish(env, "cache_savings_factor", CacheSavingsDefault)
        effective_tokens_per_request ==
            Add(Num(env, "avg_tokens_per_request"),
                Mul(Num(env, "context_tokens"),
                    Sub(One, Mul(Num(env, "cache_hit_rate"), cache_savings_factor))))
    IN  Mul(Mul(Num(env, "requests_per_day"), effective_tokens_per_request),
            Num(env, "days_per_month"))

\* 3) the completion share of the monthly tokens
completionTokens(monthly_tokens, env) ==
    Mul(monthly_tokens, Nullish(env, "completion_share", CompletionShareDefault))

\* 3) the prompt share of the monthly tokens
promptTokens(monthly_tokens, env) ==
    LET completion_share == Nullish(env, "completion_share", CompletionShareDefault)
        prompt_share     == Sub(One, completion_share)
    IN  Mul(monthly_tokens, prompt_share)

\* a variant of utilizationOf: final_cost / (env.monthly_budget || 1)
utilizationOfBudgetOrOne(final_cost, env) ==
    Div(final_cost, OrElse(env, "monthly_budget", One))

\* 7) env.monthly_budget > 0 ? final_cost / env.monthly_budget : 0
utilizationOf(final_cost, env) ==
    IF Gt(Num(env, "monthly_budget"), Zero)
    THEN Div(final_cost, Num(env, "monthly_budget"))
    ELSE Zero

thresholdsOf(env) == Nullish(env, "alert_thresholds", ThresholdsDefault)

\* a variant of statusOf with > in place of >=
statusOfStrict(utilization, thresholds) ==
    IF Gt(utilization, Num(thresholds, "critical")) THEN "RED"
    ELSE IF Gt(utilization, Num(thresholds, "warn")) THEN "AMBER"
    ELSE "GREEN"

statusOf(utilization, thresholds) ==
    IF Ge(utilization, Num(thresholds, "critical")) THEN "RED"
    ELSE IF Ge(utilization, Num(thresholds, "warn")) THEN "AMBER"
    ELSE "GREEN"

\* a variant of suggestionOf that states a shortfall of 0.00 too
suggestionOfInclusive(status, final_cost, env, thresholds, plan) ==
    IF status \in {"RED", "AMBER"}
    THEN LET shortfall   == Sub(final_cost, Num(env, "monthly_budget"))
             target_cost == Mul(Num(env, "monthly_budget"), Num(thresholds, "warn"))
             percent_to_reduce ==
                 IF Gt(final_cost, Zero)
                 THEN Div(Sub(final_cost, target_cost), final_cost)
                 ELSE Zero
         IN  (IF Ge(shortfall, Zero)
              THEN <<[sentence |-> "Budget shortfall of",
                      currency |-> Str(plan, "currency"),
                      amount   |-> toFixed(shortfall, 2)]>>
              ELSE <<>>)
             \o
             (IF Gt(percent_to_reduce, Zero)
              THEN <<[sentence |-> "To reach safety, reduce token usage or raise budget",
                      sub      |-> toFixed(Mul(Num(thresholds, "warn"), Whole(100)), 0),
                      reduce   |-> toFixed(Mul(percent_to_reduce, Whole(100)), 0)]>>
              ELSE <<>>)
    ELSE <<>>

\* The suggestion text, as the sequence of its sentences: "" is <<>>.
\*   `Budget shortfall of ${plan.currency} ${shortfall.toFixed(2)}. `
\*   `To reach safety (sub-${(warn * 100).toFixed(0)}%), reduce token usage by
\*    ~${(percent_to_reduce * 100).toFixed(0)}% or raise budget.`
suggestionOf(status, final_cost, env, thresholds, plan) ==
    IF status \in {"RED", "AMBER"}
    THEN LET shortfall   == Sub(final_cost, Num(env, "monthly_budget"))
             target_cost == Mul(Num(env, "monthly_budget"), Num(thresholds, "warn"))
             percent_to_reduce ==
                 IF Gt(final_cost, Zero)
                 THEN Div(Sub(final_cost, target_cost), final_cost)
                 ELSE Zero
         IN  (IF Gt(shortfall, Zero)
              THEN <<[sentence |-> "Budget shortfall of",
                      currency |-> Str(plan, "currency"),
                      amount   |-> toFixed(shortfall, 2)]>>
              ELSE <<>>)
             \o
             (IF Gt(percent_to_reduce, Zero)
              THEN <<[sentence |-> "To reach safety, reduce token usage or raise budget",
                      sub      |-> toFixed(Mul(Num(thresholds, "warn"), Whole(100)), 0),
                      reduce   |-> toFixed(Mul(percent_to_reduce, Whole(100)), 0)]>>
              ELSE <<>>)
    ELSE <<>>

\* the record pushed for an environment with its plan
envResult(env, plan) ==
    LET monthly_tokens    == monthlyTokens(env)
        prompt_tokens     == promptTokens(monthly_tokens, env)
        completion_tokens == completionTokens(monthly_tokens, env)
        costResult        == calculateCost(prompt_tokens, completion_tokens, plan)
        utilization       == utilizationOf(costResult.final_cost, env)
        thresholds        == thresholdsOf(env)
        status            == statusOf(utilization, thresholds)
    IN  Merge(
          Merge(
          Merge(Merge(Prop("env_id", env, "id"), Prop("env_name", env, "env_name")),
                Merge(Prop("budget", env, "monthly_budget"),
                      Prop("budget_currency", env, "budget_currency"))),
          Prop("currency", plan, "currency")),
          [plan_name            |-> Str(plan, "vendor") \o " - " \o Str(plan, "plan"),
           monthly_tokens       |-> monthly_tokens,
           prompt_tokens        |-> prompt_tokens,
           completion_tokens    |-> completion_tokens,
           raw_cost             |-> costResult.raw_cost,
           cost_after_free_tier |-> costResult.cost_after_free_tier,
           final_cost           |-> costResult.final_cost,
           utilization          |-> utilization,
           status               |-> status,
           suggestion           |-> suggestionOf(status, costResult.final_cost, env,
                                                 thresholds, plan)])

\* a variant of newTotals: totals kept between calls instead of created anew
keptTotals ==
    IF "totals" \in DOMAIN results
    THEN results.totals
    ELSE [total_tokens |-> Zero, prompt_tokens |-> Zero, completion_tokens |-> Zero,
          raw_cost |-> Zero, final_cost |-> Zero, budget |-> Zero]

\* const totals = { total_tokens: 0, ... }
newTotals ==
    [total_tokens |-> Zero, prompt_tokens |-> Zero, completion_tokens |-> Zero,
     raw_cost |-> Zero, final_cost |-> Zero, budget |-> Zero]

\* a variant of addToTotals that sums the cost before commit and overage
addToTotalsCostAfterFreeTier(totals, res, env) ==
    [total_tokens      |-> Add(totals.total_tokens, res.monthly_tokens),
     prompt_tokens     |-> Add(totals.prompt_tokens, res.prompt_tokens),
     completion_tokens |-> Add(totals.completion_tokens, res.completion_tokens),
     raw_cost          |-> Add(totals.raw_cost, res.raw_cost),
     final_cost        |-> Add(totals.final_cost, res.cost_after_free_tier),
     budget            |-> Add(totals.budget, Num(env, "monthly_budget"))]

\* "Add to totals"
addToTotals(totals, res, env) ==
    [total_tokens      |-> Add(totals.total_tokens, res.monthly_tokens),
     prompt_tokens     |-> Add(totals.prompt_tokens, res.prompt_tokens),
     completion_tokens |-> Add(totals.completion_tokens, res.completion_tokens),
     raw_cost          |-> Add(totals.raw_cost, res.raw_cost),
     final_cost        |-> Add(totals.final_cost, res.final_cost),
     budget            |-> Add(totals.budget, Num(env, "monthly_budget"))]

\* resultsPerEnv.push(res), for the accumulators acc == [perEnv, totals]
push(acc, res) == [perEnv |-> Append(acc.perEnv, res), totals |-> acc.totals]

\* resultsPerEnv.push(envResult) and "Add to totals"
pushAndAdd(acc, res, env) ==
    [perEnv |-> Append(acc.perEnv, res), totals |-> addToTotals(acc.totals, res, env)]

\* the for loop over environments, from index i with the accumulators so far
RECURSIVE forEachEnv(_, _, _)
forEachEnv(st, i, acc) ==
    IF i > Len(st.environments)
    THEN acc
    ELSE LET env  == st.environments[i]
             plan == plansMapGet(st.vendor_plans, planIdOf(st.plan_assignment, env))
         IN  forEachEnv(st, i + 1,
                        IF plan = <<>>
                        THEN push(acc, errorResult(env))
                        ELSE pushAndAdd(acc, envResult(env, plan[1]), env))

\* An array element that is missing (a hole, or undefined after a spread).
Hole == [hole |-> TRUE]

\* calculateAll did not return: it threw a TypeError
Threw == [threw |-> TRUE]

HasHole(list) == \E i \in 1..Len(list) : list[i] = Hole

\* Reading p.id of a missing plan (building plansMap) or env.id of a missing
\* environment (in the loop) throws; nothing else in the function can.
calculateAll(st) ==
    IF HasHole(st.vendor_plans) \/ HasHole(st.environments)
    THEN Threw
    ELSE forEachEnv(st, 1, [perEnv |-> <<>>, totals |-> newTotals])

---------------------------------------------------------------------------
(* State: the default state *)

DEFAULT_STATE ==
    [vendor_plans |-> <<
        [id |-> "plan_1", vendor |-> "OpenAI", plan |-> "Test-Plan (from prompt)",
         currency |-> "EUR",
         price_prompt_per_1k |-> R(2, 1000), price_completion_per_1k |-> R(6, 1000),
         monthly_commit_credit |-> Zero, free_tier_tokens |-> Zero,
         overage_multiplier |-> One],
        [id |-> "plan_2", vendor |-> "Anthropic", plan |-> "Opus",
         currency |-> "USD",
         price_prompt_per_1k |-> R(15, 1000), price_completion_per_1k |-> R(75, 1000),
         monthly_commit_credit |-> Zero, free_tier_tokens |-> Zero,
         overage_multiplier |-> One] >>,
     environments |-> <<
        [id |-> "env_1", env_name |-> "Production (Test Scenario)",
         requests_per_day |-> Whole(100), avg_tokens_per_request |-> Whole(1000),
         context_tokens |-> Whole(200), cache_hit_rate |-> R(5, 10),
         cache_savings_factor |-> R(8, 10), completion_share |-> R(4, 10),
         days_per_month |-> Whole(30), budget_currency |-> "EUR",
         monthly_budget |-> Whole(20),
         alert_thresholds |-> [warn |-> R(8, 10), critical |-> One]],
        [id |-> "env_2", env_name |-> "Staging",
         requests_per_day |-> Whole(50), avg_tokens_per_request |-> Whole(2000),
         context_tokens |-> Whole(1000), cache_hit_rate |-> R(1, 10),
         cache_savings_factor |-> R(8, 10), completion_share |-> R(3, 10),
         days_per_month |-> Whole(22), budget_currency |-> "USD",
         monthly_budget |-> Whole(50),
         alert_thresholds |-> [warn |-> R(8, 10), critical |-> One]] >>,
     plan_assignment |-> [env_1 |-> "plan_1", env_2 |-> "plan_2"]]

---------------------------------------------------------------------------
(* The App controller and the State store.  The store starts from the        *)
(* default state (nothing in localStorage); App.init has not run yet.        *)

DEBOUNCE_DELAY == 300

MaxEvents == 3

MaxMs == 1

\* nothing was calculated or rendered yet
NotCalled == [called |-> FALSE]

NoTimer == [pending |-> FALSE]

Init ==
    /\ state = DEFAULT_STATE
    /\ results = NotCalled
    /\ earlier = {}
    /\ dom = NotCalled
    /\ debounceTimer = NoTimer
    /\ now = 0
    /\ events = MaxEvents
    /\ localStorage = <<>>

\* App.mainRenderLoop on the state st: calculateAll, then UI.renderAll, which
\* fills the plan and environment tables first.  When calculateAll throws,
\* nothing is rendered.
mainRenderLoop(st) ==
    /\ results' = calculateAll(st)
    /\ dom' = IF results' = Threw THEN dom ELSE st
    /\ earlier' = earlier \cup {[arg |-> st, ret |-> results']}

\* App.init: the first render; the listeners are attached
AppInit ==
    /\ dom = NotCalled
    /\ mainRenderLoop(state)
    /\ UNCHANGED <<state, debounceTimer, now, events, localStorage>>

\* what JSON.parse gives back for JSON.stringify(list): null for a missing
\* element
Null == [null |-> TRUE]

JSONOfList(list) ==
    [i \in 1..Len(list) |-> IF list[i] = Hole THEN Null ELSE list[i]]

\* State.save: the state as JSON.stringify writes it
stringify(st) ==
    [vendor_plans    |-> JSONOfList(st.vendor_plans),
     environments    |-> JSONOfList(st.environments),
     plan_assignment |-> st.plan_assignment]

\* State.update(partialState): merge, save, dispatch stateChange
StateUpdate(partialState) ==
    /\ state' = Merge(state, partialState)
    /\ localStorage' = <<stringify(state')>>
    /\ mainRenderLoop(state')

\* a click or an input event reaches its listener
UserEvent ==
    /\ dom # NotCalled
    /\ events > 0
    /\ events' = events - 1

\* array.splice(index, 1), index counted from 0
Splice(list, index) ==
    [k \in 1..(Len(list) - 1) |-> IF k <= index THEN list[k] ELSE list[k + 1]]

\* The rows of a table of the page, numbered as data-index numbers them:
\* forEach passes the elements that exist.  No rows before the first render.
Rendered(table) == IF dom = NotCalled THEN <<>> ELSE dom[table]

Rows(table) ==
    {i \in 0..(Len(Rendered(table)) - 1) : Rendered(table)[i + 1] # Hole}

\* click on the Delete button of plan row `index`
DeletePlan(index) ==
    /\ UserEvent
    /\ index \in Rows("vendor_plans")
    /\ IF index < Len(state.vendor_plans) /\ state.vendor_plans[index + 1] # Hole
       THEN LET planId == idOf(state.vendor_plans[index + 1])
                pa     == state.plan_assignment
            IN  StateUpdate(
                    [vendor_plans    |-> Splice(state.vendor_plans, index),
                     environments    |-> state.environments,
                     plan_assignment |->
                         [envId \in DOMAIN pa |->
                             IF <<pa[envId]>> = planId THEN "" ELSE pa[envId]]])
       ELSE \* state.vendor_plans[index].id throws
            UNCHANGED <<state, results, earlier, dom, localStorage>>
    /\ UNCHANGED <<debounceTimer, now>>

\* click on the Delete button of environment row `index`
DeleteEnv(index) ==
    /\ UserEvent
    /\ index \in Rows("environments")
    /\ IF index < Len(state.environments) /\ state.environments[index + 1] # Hole
       THEN LET envId == Str(state.environments[index + 1], "id")
                pa    == state.plan_assignment
            IN  StateUpdate(
                    [vendor_plans    |-> state.vendor_plans,
                     environments    |-> Splice(state.environments, index),
                     plan_assignment |-> [k \in DOMAIN pa \ {envId} |-> pa[k]]])
       ELSE \* state.environments[index].id throws
            UNCHANGED <<state, results, earlier, dom, localStorage>>
    /\ UNCHANGED <<debounceTimer, now>>

\* `${Date.now()}`: the time stamp, the page having been loaded at time T
Stamp(t) == "T+" \o ToString(t)

\* click on "Add plan"
AddPlan ==
    /\ UserEvent
    /\ LET newPlan ==
               [id |-> "plan_" \o Stamp(now),
                vendor |-> "Other", plan |-> "New Plan", currency |-> "USD",
                price_prompt_per_1k |-> R(1, 100), price_completion_per_1k |-> R(3, 100),
                monthly_commit_credit |-> Zero, free_tier_tokens |-> Zero,
                overage_multiplier |-> One]
       IN  StateUpdate([vendor_plans |-> Append(state.vendor_plans, newPlan)])
    /\ UNCHANGED <<debounceTimer, now>>

\* click on "Add environment"
AddEnv ==
    /\ UserEvent
    /\ LET newEnv ==
               [id |-> "env_" \o Stamp(now), env_name |-> "New Environment",
                requests_per_day |-> Whole(10), avg_tokens_per_request |-> Whole(1000),
                context_tokens |-> Whole(500), cache_hit_rate |-> Zero,
                cache_savings_factor |-> R(8, 10), completion_share |-> R(4, 10),
                days_per_month |-> Whole(30), monthly_budget |-> Whole(10),
                budget_currency |-> "USD",
                alert_thresholds |-> [warn |-> R(8, 10), critical |-> One]]
       IN  StateUpdate([environments |-> Append(state.environments, newEnv)])
    /\ UNCHANGED <<debounceTimer, now>>

\* click on "Reset", confirmed: State.reset()
Reset ==
    /\ UserEvent
    /\ state' = DEFAULT_STATE
    /\ localStorage' = <<stringify(state')>>
    /\ mainRenderLoop(state')
    /\ UNCHANGED <<debounceTimer, now>>

\* The fields the user edits, with what is typed into them: the input
\* elements of the tables with their type, min and max attributes.
PlanInputs ==
    {[key |-> "vendor", type |-> "text", min |-> "", max |-> "", value |-> "Acme"],
     [key |-> "monthly_commit_credit", type |-> "number", min |-> "0", max |-> "",
      value |-> "5"]}

EnvInputs ==
    {[key |-> "monthly_budget", type |-> "number", min |-> "0", max |-> "",
      value |-> "-5"],
     [key |-> "cache_hit_rate", type |-> "number", min |-> "0", max |-> "1",
      value |-> "5"]}

\* the input and select elements of the page, each with a value typed or chosen
Elements ==
    {Merge(f, [table |-> "plans", index |-> i]) :
        f \in PlanInputs, i \in Rows("vendor_plans")}
    \cup
    {Merge(f, [table |-> "envs", index |-> i]) :
        f \in EnvInputs, i \in Rows("environments")}
    \cup
    {[table |-> "assignment", type |-> "select-one",
      envId |-> Str(dom.environments[i + 1], "id"), value |-> v] :
        i \in Rows("environments"),
        v \in {""} \cup {Str(dom.vendor_plans[j + 1], "id") : j \in Rows("vendor_plans")}}

\* the record the row of element el was rendered from
RowOf(el) ==
    CASE el.table = "plans" -> dom.vendor_plans[el.index + 1]
      [] el.table = "envs"  -> dom.environments[el.index + 1]
      [] el.table = "assignment" ->
            CHOOSE env \in {dom.environments[i + 1] : i \in Rows("environments")} :
                Str(env, "id") = el.envId

\* An input event on element el: the pending timer is cleared, a new one set.
\* The closure holds el; row records, for the properties, what el showed.
handleInputChange(el) ==
    /\ UserEvent
    /\ el \in Elements
    /\ debounceTimer' = [pending |-> TRUE, el |-> el, due |-> now + DEBOUNCE_DELAY,
                         row |-> RowOf(el)]
    /\ UNCHANGED <<state, results, earlier, dom, now, localStorage>>

\* parseFloat of the texts that are typed; NaN for the empty text
parseFloat(text) ==
    CASE text = "5"  -> Whole(5)
      [] text = "-5" -> Whole(-5)
      [] text = "0"  -> Zero
      [] text = "1"  -> One
      [] OTHER       -> NaN

\* the value of an element: a number, clamped to min and max, or the text
valueOf(el) ==
    IF el.type = "number"
    THEN LET parsed  == parseFloat(el.value)
             value   == IF IsNaN(parsed) THEN Zero ELSE parsed
             min     == parseFloat(el.min)
             max     == parseFloat(el.max)
             atLeast == IF ~IsNaN(min) /\ Lt(value, min) THEN min ELSE value
         IN  IF ~IsNaN(max) /\ Gt(atLeast, max) THEN max ELSE atLeast
    ELSE el.value

\* newList[index] = { ...newList[index], [key]: value } on a copy of list
SetProperty(list, index, key, value) ==
    LET old == IF index < Len(list) /\ list[index + 1] # Hole
               THEN list[index + 1] ELSE <<>>
        new == Merge(old, [k \in {key} |-> value])
        len == IF index < Len(list) THEN Len(list) ELSE index + 1
    IN  [k \in 1..len |->
            IF k = index + 1 THEN new ELSE IF k <= Len(list) THEN list[k] ELSE Hole]

\* App.updateStateFromInput(el, table)
updateStateFromInput(el) ==
    LET value == valueOf(el)
    IN  StateUpdate(
            CASE el.table = "plans" ->
                   [vendor_plans |->
                       SetProperty(state.vendor_plans, el.index, el.key, value)]
              [] el.table = "envs" ->
                   [environments |->
                       SetProperty(state.environments, el.index, el.key, value)]
              [] el.table = "assignment" ->
                   [plan_assignment |->
                       Merge(state.plan_assignment, [k \in {el.envId} |-> value])])

\* the debounce timer fires
TimerFires ==
    /\ debounceTimer.pending
    /\ now >= debounceTimer.due
    /\ updateStateFromInput(debounceTimer.el)
    /\ debounceTimer' = NoTimer
    /\ UNCHANGED <<now, events>>

\* Time passes: a millisecond, or the time until the pending timer is due.
\* A timer fires when it is due, before more time passes.
Tick ==
    /\ dom # NotCalled
    /\ \/ /\ now % DEBOUNCE_DELAY < MaxMs
          /\ debounceTimer.pending => now < debounceTimer.due
          /\ now' = now + 1
       \/ /\ debounceTimer.pending
          /\ now < debounceTimer.due
          /\ now' = debounceTimer.due
    /\ UNCHANGED <<state, results, earlier, dom, debounceTimer, events, localStorage>>

Next ==
    \/ AppInit
    \/ \E index \in 0..(MaxEvents + 1) : DeletePlan(index)
    \/ \E index \in 0..(MaxEvents + 1) : DeleteEnv(index)
    \/ AddPlan
    \/ AddEnv
    \/ Reset
    \/ \E el \in Elements : handleInputChange(el)
    \/ TimerFires
    \/ Tick

Spec == Init /\ [][Next]_vars

\* the debounce timer is due: TimerFires is enabled
TimerDue == debounceTimer.pending /\ now >= debounceTimer.due

\* The browser runs a timer's callback once it is due, and time passes; the
\* user may stop at any moment.  The second conjunct is WF_vars(TimerFires)
\* with ENABLED <<TimerFires>>_vars written out as TimerDue.
FairSpec ==
    /\ Spec
    /\ WF_vars(Tick)
    /\ <>[]TimerDue => []<><<TimerFires>>_vars

(* Longer sessions in which the user only edits and deletes rows: one field  *)
(* of each table (the vendor of a plan, the budget of an environment) and    *)
(* the Delete buttons.                                                        *)

MaxTableEvents == 5

InitTables ==
    /\ state = DEFAULT_STATE
    /\ results = NotCalled
    /\ earlier = {}
    /\ dom = NotCalled
    /\ debounceTimer = NoTimer
    /\ now = 0
    /\ events = MaxTableEvents
    /\ localStorage = <<>>

TableInputs ==
    {el \in Elements :
        el.table # "assignment" /\ el.key \in {"vendor", "monthly_budget"}}

NextTables ==
    \/ AppInit
    \/ \E index \in 0..(MaxEvents + 1) : DeletePlan(index)
    \/ \E index \in 0..(MaxEvents + 1) : DeleteEnv(index)
    \/ \E el \in TableInputs : handleInputChange(el)
    \/ TimerFires
    \/ Tick

SpecTables == InitTables /\ [][NextTables]_vars

---------------------------------------------------------------------------
(* The inputs of the calculator: states of the shape the store holds, with  *)
(* the optional properties present or missing.  An optional value is <<>>   *)
(* (missing) or <<v>>.                                                      *)

MaxEnvs == 3

Opt(name, v) == [k \in (IF v = <<>> THEN {} ELSE {name}) |-> v[1]]

\* environment DEFAULT_STATE.environments[1] with some properties replaced
EnvWith(req, hit, savings, share, budget, thresholds) ==
    Merge(Pick(DEFAULT_STATE.environments[1],
               {"id", "env_name", "avg_tokens_per_request", "context_tokens",
                "days_per_month", "budget_currency"}),
          Merge([requests_per_day |-> req, cache_hit_rate |-> hit,
                 monthly_budget |-> budget],
                Merge(Opt("cache_savings_factor", savings),
                      Merge(Opt("completion_share", share),
                            Opt("alert_thresholds", thresholds)))))

\* plan DEFAULT_STATE.vendor_plans[1] with some properties replaced
PlanWith(pricePrompt, freeTier, commit, overage) ==
    Merge(Pick(DEFAULT_STATE.vendor_plans[1],
               {"id", "vendor", "plan", "currency", "price_completion_per_1k"}),
          Merge([price_prompt_per_1k |-> pricePrompt, free_tier_tokens |-> freeTier,
                 monthly_commit_credit |-> commit],
                Opt("overage_multiplier", overage)))

OverageValues == {<<>>, <<Zero>>, <<One>>, <<R(3, 2)>>}

PlansRich ==
    {PlanWith(pp, ft, cm, om) :
        pp \in {Zero, R(2, 1000)},
        ft \in {Zero, Whole(1000000), Whole(3360000), Whole(5000000)},
        cm \in {Zero, Whole(5), Whole(20)},
        om \in OverageValues}

PlansFew ==
    {PlanWith(R(2, 1000), Zero, Zero, <<One>>),
     PlanWith(R(2, 1000), Whole(1000000), Zero, <<One>>),
     PlanWith(R(2, 1000), Whole(1000000), Whole(5), <<R(3, 2)>>),
     PlanWith(Zero, Whole(5000000), Zero, <<>>)}

AltThresholds == [warn |-> R(1, 2), critical |-> R(9, 10)]

EnvsTokens ==
    {EnvWith(rq, hr, sv, sh, Whole(20), <<>>) :
        rq \in {Zero, Whole(100)},
        hr \in {Zero, R(1, 2)},
        sv \in {<<>>, <<R(1, 2)>>},
        sh \in {<<>>, <<R(3, 10)>>, <<Zero>>, <<One>>}}

EnvsRich ==
    {EnvWith(rq, R(1, 2), sv, sh, bg, th) :
        rq \in {Zero, Whole(100)},
        sv \in {<<>>, <<R(8, 10)>>, <<R(1, 2)>>},
        sh \in {<<>>, <<R(4, 10)>>, <<R(3, 10)>>},
        bg \in {Zero, Whole(10), R(1512, 125), R(378, 25), Whole(20)},
        th \in {<<>>, <<ThresholdsDefault>>, <<AltThresholds>>}}

EnvsFew == {DEFAULT_STATE.environments[1], DEFAULT_STATE.environments[2]}

EnvIds == <<"env_1", "env_2", "env_3", "env_4">>

\* the environments of a list get the ids env_1, env_2, ... in order
WithIds(envs) == [i \in 1..Len(envs) |-> Merge(envs[i], [id |-> EnvIds[i]])]

EnvLists == UNION {[1..n -> EnvsFew] : n \in 0..MaxEnvs}

PlanLists ==
    {<<>>, <<DEFAULT_STATE.vendor_plans[1]>>, DEFAULT_STATE.vendor_plans}

\* a plan_assignment over the environments: each is missing, "", or a plan id
\* that is or is not in vendor_plans
Assignments(n) ==
    UNION {[S -> {"", "plan_1", "plan_2", "plan_9"}] :
              S \in SUBSET {EnvIds[i] : i \in 1..n}}

InitCalc ==
    /\ \/ \E env \in EnvsTokens, plan \in PlansRich :
             state = [vendor_plans |-> <<plan>>, environments |-> <<env>>,
                      plan_assignment |-> [env_1 |-> "plan_1"]]
       \/ \E env \in EnvsRich, plan \in PlansFew :
             state = [vendor_plans |-> <<plan>>, environments |-> <<env>>,
                      plan_assignment |-> [env_1 |-> "plan_1"]]
       \/ \E envs \in EnvLists, plans \in PlanLists :
             \E pa \in Assignments(Len(envs)) :
                state = [vendor_plans |-> plans, environments |-> WithIds(envs),
                         plan_assignment |-> pa]
    /\ results = NotCalled
    /\ earlier = {}
    /\ dom = NotCalled
    /\ debounceTimer = NoTimer
    /\ now = 0
    /\ events = 0
    /\ localStorage = <<>>

\* a caller calls Calculator.calculateAll(state)
CalculateAll ==
    /\ results' = calculateAll(state)
    /\ earlier' = earlier \cup {[arg |-> state, ret |-> results']}
    /\ UNCHANGED <<state, dom, debounceTimer, now, events, localStorage>>

NextCalc == CalculateAll

SpecCalc == InitCalc /\ [][NextCalc]_vars

---------------------------------------------------------------------------
(* Properties of the calculator, over the state a call was made with and    *)
(* the value it returned                                                    *)

Returned == results \notin {NotCalled, Threw}

EnvIndexes == 1..Len(state.environments)

\* the i-th result carries no error marker
Valid(i) == "error" \notin DOMAIN results.perEnv[i]

\* the plan the state assigns to the i-th environment, for a valid result
AssignedPlan(i) ==
    CHOOSE p \in {state.vendor_plans[k] : k \in 1..Len(state.vendor_plans)} :
        p.id = state.plan_assignment[state.environments[i].id]

\* the sum of field f over the results of rs that carry no error marker
RECURSIVE SumValid(_, _)
SumValid(rs, f) ==
    IF rs = <<>> THEN Zero
    ELSE IF "error" \in DOMAIN Head(rs) THEN SumValid(Tail(rs), f)
    ELSE Add(Head(rs)[f], SumValid(Tail(rs), f))

\* the i-th environment has no plan: its plan_assignment entry is absent, the
\* empty string, or the id of no plan of vendor_plans
Unassigned(i) ==
    LET key   == Str(state.environments[i], "id")
        pa    == state.plan_assignment
        plans == state.vendor_plans
    IN  \/ key \notin DOMAIN pa
        \/ pa[key] = ""
        \/ \A k \in 1..Len(plans) : idOf(plans[k]) # <<pa[key]>>

\* the i-th result is the error-marked record and carries no cost field
ErrorMarked(i) ==
    LET r == results.perEnv[i]
    IN  /\ DOMAIN r \subseteq {"env_id", "env_name", "error", "status"}
        /\ "error" \in DOMAIN r
        /\ r.status = "N/A"
        /\ Prop("env_id", state.environments[i], "id") = Pick(r, {"env_id"})

\* the i-th result is a normal one: tokens, costs and a traffic-light status
Evaluated(i) ==
    LET r == results.perEnv[i]
    IN  /\ "error" \notin DOMAIN r
        /\ {"monthly_tokens", "raw_cost", "final_cost", "budget"} \subseteq DOMAIN r
        /\ r.status \in {"GREEN", "AMBER", "RED"}

\* the sum of field f over the results, from the i-th on, of the environments
\* that have a plan
RECURSIVE SumAssigned(_, _)
SumAssigned(i, f) ==
    IF i > Len(state.environments) THEN Zero
    ELSE IF Unassigned(i) THEN SumAssigned(i + 1, f)
    ELSE Add(results.perEnv[i][f], SumAssigned(i + 1, f))

\* C1: every environment whose plan_assignment entry is absent, empty or the
\* id of no plan gets the error-marked record (env_id, env_name, error, status
\* "N/A") with no cost field and adds nothing to any field of totals; every
\* other environment of the list is still evaluated to its normal result.
C1_UnassignedIsErrorMarked ==
    Returned =>
        /\ Len(results.perEnv) = Len(state.environments)
        /\ \A i \in EnvIndexes :
              IF Unassigned(i) THEN ErrorMarked(i) ELSE Evaluated(i)
        /\ results.totals.total_tokens = SumAssigned(1, "monthly_tokens")
        /\ results.totals.prompt_tokens = SumAssigned(1, "prompt_tokens")
        /\ results.totals.completion_tokens = SumAssigned(1, "completion_tokens")
        /\ results.totals.raw_cost = SumAssigned(1, "raw_cost")
        /\ results.totals.final_cost = SumAssigned(1, "final_cost")
        /\ results.totals.budget = SumAssigned(1, "budget")

\* C2: every field of totals is the plain sum of the corresponding field over
\* exactly the results with no error marker (budget: the result's budget),
\* whatever the currencies of the plans are.
C2_TotalsAreSums ==
    Returned =>
        /\ results.totals.total_tokens = SumValid(results.perEnv, "monthly_tokens")
        /\ results.totals.prompt_tokens = SumValid(results.perEnv, "prompt_tokens")
        /\ results.totals.completion_tokens = SumValid(results.perEnv, "completion_tokens")
        /\ results.totals.raw_cost = SumValid(results.perEnv, "raw_cost")
        /\ results.totals.final_cost = SumValid(results.perEnv, "final_cost")
        /\ results.totals.budget = SumValid(results.perEnv, "budget")

\* two valid results in different currencies and one error result were summed
C2_Witness ==
    /\ Returned
    /\ \E i, j, k \in EnvIndexes :
          /\ Valid(i) /\ Valid(j) /\ ~Valid(k)
          /\ results.perEnv[i].currency # results.perEnv[j].currency
          /\ Gt(results.perEnv[i].final_cost, Zero)
          /\ Gt(results.perEnv[j].final_cost, Zero)

\* the inputs of calculateCost for the i-th environment
Prompt(i) == results.perEnv[i].prompt_tokens

Completion(i) == results.perEnv[i].completion_tokens

Total(i) == Add(Prompt(i), Completion(i))

FreeTier(i) == AssignedPlan(i).free_tier_tokens

Commit(i) == AssignedPlan(i).monthly_commit_credit

NonNegativeInputs(i) ==
    /\ Ge(Prompt(i), Zero) /\ Ge(Completion(i), Zero)
    /\ Ge(AssignedPlan(i).price_prompt_per_1k, Zero)
    /\ Ge(AssignedPlan(i).price_completion_per_1k, Zero)
    /\ Ge(FreeTier(i), Zero) /\ Ge(Commit(i), Zero)
    /\ "overage_multiplier" \in DOMAIN AssignedPlan(i)
          => Ge(AssignedPlan(i).overage_multiplier, Zero)

\* C3: for non-negative token counts and a plan whose prices, free tier,
\* commit and overage multiplier are non-negative, cost_after_free_tier >= 0
\* and final_cost >= 0.
C3_CostsNonNegative ==
    Returned =>
        \A i \in EnvIndexes :
            (Valid(i) /\ NonNegativeInputs(i)) =>
                /\ Ge(results.perEnv[i].cost_after_free_tier, Zero)
                /\ Ge(results.perEnv[i].final_cost, Zero)

\* a free tier larger than the tokens used, on a plan with a commit
C3_Witness ==
    /\ Returned
    /\ \E i \in EnvIndexes :
          /\ Valid(i) /\ NonNegativeInputs(i)
          /\ Gt(Total(i), Zero) /\ Gt(FreeTier(i), Total(i)) /\ Gt(Commit(i), Zero)
          /\ Gt(results.perEnv[i].raw_cost, Zero)

\* the price of p prompt and c completion tokens on the plan of environment i
PriceOf(i, p, c) ==
    Add(Div(Mul(p, AssignedPlan(i).price_prompt_per_1k), Thousand),
        Div(Mul(c, AssignedPlan(i).price_completion_per_1k), Thousand))

\* max(0, total - free_tier) / total
NotFreeRatio(i) ==
    IF Ge(FreeTier(i), Total(i)) THEN Zero
    ELSE Div(Sub(Total(i), FreeTier(i)), Total(i))

\* C4: the free tier is applied pro rata: with free_tier_tokens > 0 and
\* total > 0 both counts are scaled by max(0, total - free_tier) / total before
\* pricing, so cost_after_free_tier is 0 when the free tier covers all tokens
\* and never exceeds raw_cost; with free_tier_tokens = 0 or total = 0 it equals
\* raw_cost; raw_cost is priced on the unscaled counts.
C4_FreeTierProRata ==
    Returned =>
        \A i \in EnvIndexes :
            Valid(i) =>
                LET res == results.perEnv[i]
                IN  /\ res.raw_cost = PriceOf(i, Prompt(i), Completion(i))
                    /\ Le(res.cost_after_free_tier, res.raw_cost)
                    /\ IF Gt(FreeTier(i), Zero) /\ Gt(Total(i), Zero)
                       THEN /\ res.cost_after_free_tier =
                                   PriceOf(i, Mul(Prompt(i), NotFreeRatio(i)),
                                              Mul(Completion(i), NotFreeRatio(i)))
                            /\ Ge(FreeTier(i), Total(i)) => res.cost_after_free_tier = Zero
                       ELSE res.cost_after_free_tier = res.raw_cost

\* a free tier that covers part of the tokens, of which some are completions
C4_Witness ==
    /\ Returned
    /\ \E i \in EnvIndexes :
          /\ Valid(i)
          /\ Gt(FreeTier(i), Zero) /\ Lt(FreeTier(i), Total(i))
          /\ Gt(Completion(i), Zero) /\ Gt(Prompt(i), Zero)
          /\ Gt(results.perEnv[i].cost_after_free_tier, Zero)
          /\ Lt(results.perEnv[i].cost_after_free_tier, results.perEnv[i].raw_cost)

\* the overage multiplier in force: 1 when it is unset or exactly 0
Multiplier(i) ==
    IF "overage_multiplier" \in DOMAIN AssignedPlan(i)
       /\ AssignedPlan(i).overage_multiplier # Zero
    THEN AssignedPlan(i).overage_multiplier
    ELSE One

\* C5: with monthly_commit_credit = 0, final_cost = cost_after_free_tier; with
\* a commit > 0, final_cost = min(cost, commit) + max(0, cost - commit) * m,
\* m the overage multiplier, or 1 when it is unset or 0: a cost at or below the
\* commit is returned unchanged, and a zero cost yields 0.
C5_CommitAndOverage ==
    Returned =>
        \A i \in EnvIndexes :
            Valid(i) =>
                LET res  == results.perEnv[i]
                    cost == res.cost_after_free_tier
                IN  IF Commit(i) = Zero THEN res.final_cost = cost
                    ELSE IF Le(cost, Commit(i)) THEN res.final_cost = cost
                    ELSE res.final_cost =
                             Add(Commit(i), Mul(Sub(cost, Commit(i)), Multiplier(i)))

\* a cost above the commit, on a plan whose overage multiplier is 0
C5_Witness ==
    /\ Returned
    /\ \E i \in EnvIndexes :
          /\ Valid(i)
          /\ Gt(Commit(i), Zero)
          /\ Gt(results.perEnv[i].cost_after_free_tier, Commit(i))
          /\ "overage_multiplier" \in DOMAIN AssignedPlan(i)
          /\ AssignedPlan(i).overage_multiplier = Zero
          /\ results.perEnv[i].final_cost = results.perEnv[i].cost_after_free_tier

Warn(i) ==
    IF "alert_thresholds" \in DOMAIN state.environments[i]
    THEN state.environments[i].alert_thresholds.warn ELSE R(4, 5)

Critical(i) ==
    IF "alert_thresholds" \in DOMAIN state.environments[i]
    THEN state.environments[i].alert_thresholds.critical ELSE Whole(1)

\* final_cost / monthly_budget when monthly_budget > 0, else 0
Utilization(i) ==
    IF Gt(state.environments[i].monthly_budget, Zero)
    THEN Div(results.perEnv[i].final_cost, state.environments[i].monthly_budget)
    ELSE Zero

\* C7: status is decided by utilization and the thresholds alone: RED iff
\* utilization >= critical, AMBER iff warn <= utilization < critical, GREEN
\* otherwise, with utilization = final_cost / monthly_budget when
\* monthly_budget > 0 and 0 otherwise.
C7_StatusByUtilization ==
    Returned =>
        \A i \in EnvIndexes :
            Valid(i) =>
                LET res == results.perEnv[i]
                    u   == Utilization(i)
                IN  /\ res.utilization = u
                    /\ res.status \in {"RED", "AMBER", "GREEN"}
                    /\ res.status = "RED" <=> Ge(u, Critical(i))
                    /\ res.status = "AMBER" <=> (Ge(u, Warn(i)) /\ Lt(u, Critical(i)))
                    /\ res.status = "GREEN"
                          <=> ~Ge(u, Critical(i)) /\ ~(Ge(u, Warn(i)) /\ Lt(u, Critical(i)))

\* a utilization exactly at the warn threshold, with default thresholds
C7_Witness ==
    /\ Returned
    /\ \E i \in EnvIndexes :
          /\ Valid(i)
          /\ "alert_thresholds" \notin DOMAIN state.environments[i]
          /\ results.perEnv[i].utilization = R(4, 5)
          /\ results.perEnv[i].status = "AMBER"

\* an optional fraction of the i-th environment, with its default
Fraction(i, key, dflt) ==
    IF key \in DOMAIN state.environments[i] THEN state.environments[i][key] ELSE dflt

Shortfalls(sug) == {k \in 1..Len(sug) : sug[k].sentence = "Budget shortfall of"}

Reductions(sug) ==
    {k \in 1..Len(sug) :
        sug[k].sentence = "To reach safety, reduce token usage or raise budget"}

\* text is x printed with k fraction digits: off by at most half a unit
PrintsAs(text, x, k) ==
    /\ text.frac = k
    /\ Le(Sub(Mul(x, Whole(Pow10(k))), Whole(text.digits)), R(1, 2))
    /\ Le(Sub(Whole(text.digits), Mul(x, Whole(Pow10(k)))), R(1, 2))

\* C10: an AMBER or RED result's suggestion contains the shortfall statement
\* (amount final_cost - monthly_budget, two decimals) exactly when
\* final_cost > monthly_budget, and the reduction recommendation exactly when
\* final_cost > monthly_budget * warn; a GREEN result's suggestion is empty.
C10_Suggestion ==
    Returned =>
        \A i \in EnvIndexes :
            Valid(i) =>
                LET res    == results.perEnv[i]
                    sug    == res.suggestion
                    budget == state.environments[i].monthly_budget
                IN  IF res.status = "GREEN" THEN sug = <<>>
                    ELSE /\ Shortfalls(sug) # {} <=> Gt(res.final_cost, budget)
                         /\ \A k \in Shortfalls(sug) :
                               /\ k = 1
                               /\ sug[k].currency = AssignedPlan(i).currency
                               /\ PrintsAs(sug[k].amount, Sub(res.final_cost, budget), 2)
                         /\ Reductions(sug) # {}
                               <=> Gt(res.final_cost, Mul(budget, Warn(i)))
                         /\ Shortfalls(sug) \cup Reductions(sug) = 1..Len(sug)
                         /\ Len(sug) <= 2

\* a RED result with a shortfall of 2.10 (12.096 against a budget of 10)
C10_Witness ==
    /\ Returned
    /\ \E i \in EnvIndexes :
          /\ Valid(i)
          /\ results.perEnv[i].status = "RED"
          /\ results.perEnv[i].final_cost = R(12096, 1000)
          /\ Len(results.perEnv[i].suggestion) = 2
          /\ results.perEnv[i].suggestion[1].amount = [digits |-> 210, frac |-> 2]

---------------------------------------------------------------------------
(* The handlers of the page *)

RowIndexes == 0..(MaxEvents + 1)

\* the list is the list before it without its element at index (from 0)
Without(after, before, index) ==
    /\ index < Len(before)
    /\ Len(after) = Len(before) - 1
    /\ \A k \in 1..Len(after) :
          after[k] = IF k <= index THEN before[k] ELSE before[k + 1]

\* the new state was saved to localStorage and the page rendered from it
SavedAndRendered ==
    /\ localStorage' = <<stringify(state')>>
    /\ results' \notin {NotCalled, Threw}
    /\ dom' = state'

\* what claim C11 says of a click on Delete in the plan row index
DeletePlanEffect(index) ==
    LET plan == dom.vendor_plans[index + 1]
        pa   == state.plan_assignment
    IN  /\ Without(state'.vendor_plans, state.vendor_plans, index)
        /\ state.vendor_plans[index + 1] = plan
        /\ DOMAIN state'.plan_assignment = DOMAIN pa
        /\ \A envId \in DOMAIN pa :
              /\ <<state'.plan_assignment[envId]>> # idOf(plan)
              /\ state'.plan_assignment[envId] =
                    IF <<pa[envId]>> = idOf(plan) THEN "" ELSE pa[envId]
        /\ state'.environments = state.environments
        /\ SavedAndRendered

\* C11: a click on Delete of a plan row removes exactly that plan from
\* vendor_plans; right after it no plan_assignment value is the deleted
\* plan's id (each such entry is the empty string), the other assignments and
\* the environments are unchanged, and the new state is saved and rendered.
C11_DeletePlanCascades ==
    [][\A index \in RowIndexes : DeletePlan(index) => DeletePlanEffect(index)]_vars

\* what claim C12 says of a click on Delete in the environment row index
DeleteEnvEffect(index) ==
    LET env == dom.environments[index + 1]
        pa  == state.plan_assignment
    IN  /\ Without(state'.environments, state.environments, index)
        /\ state.environments[index + 1] = env
        /\ idOf(env) # <<>> => env.id \notin DOMAIN state'.plan_assignment
        /\ \A k \in 1..Len(state'.environments) :
              LET other == state'.environments[k]
              IN  other # Hole =>
                     planIdOf(state'.plan_assignment, other) = planIdOf(pa, other)
        /\ state'.vendor_plans = state.vendor_plans

\* C12: a click on Delete of an environment row removes exactly that
\* environment from the environments list and its key from plan_assignment;
\* vendor_plans and the assignment of every other environment are unchanged.
C12_DeleteEnvRemovesKey ==
    [][\A index \in RowIndexes : DeleteEnv(index) => DeleteEnvEffect(index)]_vars

\* no two elements of the list share an id
UniqueIds(list) ==
    \A i, j \in 1..Len(list) :
        (i # j /\ list[i] # Hole /\ list[j] # Hole) => idOf(list[i]) # idOf(list[j])

\* the records of the list before that are still at their place have their id
SameIds(after, before) ==
    \A k \in 1..Len(before) :
        (k <= Len(after) /\ before[k] # Hole /\ after[k] # Hole) =>
            idOf(after[k]) = idOf(before[k])

\* C13: from the default state, after any sequence of add, delete, edit and
\* reset actions no two vendor plans share an id and no two environments share
\* an id, and an edit (the debounced write) never changes a record's id.
C13_IdsUniqueAndStable ==
    /\ [](UniqueIds(state.vendor_plans) /\ UniqueIds(state.environments))
    /\ [][TimerFires =>
             /\ SameIds(state'.vendor_plans, state.vendor_plans)
             /\ SameIds(state'.environments, state.environments)]_vars

\* Three fields of the page rendered from the default state, one of each
\* table, each with a value typed or chosen: the vendor of the first plan, the
\* budget of the first environment and the plan select of the first environment
DefaultPageFields ==
    {Merge(f, [table |-> "plans", index |-> 0]) : f \in {g \in PlanInputs : g.key = "vendor"}}
    \cup
    {Merge(f, [table |-> "envs", index |-> 0]) :
        f \in {g \in EnvInputs : g.key = "monthly_budget"}}
    \cup
    {[table |-> "assignment", type |-> "select-one",
      envId |-> DEFAULT_STATE.environments[1].id,
      value |-> DEFAULT_STATE.vendor_plans[2].id]}

\* an input event on the field is waiting for the debounce timer
Pending(el) == debounceTimer.pending /\ debounceTimer.el = el

\* the list has the value at property key of its element at index (from 0)
Holds(list, index, key, value) ==
    /\ index < Len(list)
    /\ list[index + 1] # Hole
    /\ key \in DOMAIN list[index + 1]
    /\ list[index + 1][key] = value

\* the state holds what was typed or chosen in the field, and that state is
\* the one saved and shown
Committed(el) ==
    /\ CASE el.table = "plans" ->
              Holds(state.vendor_plans, el.index, el.key, valueOf(el))
         [] el.table = "envs" ->
              Holds(state.environments, el.index, el.key, valueOf(el))
         [] el.table = "assignment" ->
              /\ el.envId \in DOMAIN state.plan_assignment
              /\ state.plan_assignment[el.envId] = el.value
    /\ localStorage = <<stringify(state)>>
    /\ dom = state

\* C14: every input event on a field of the tables (here: on each of three
\* fields of the first page) is eventually committed to the state, saved and
\* rendered once input stops for the debounce delay, also when two different
\* fields are changed less than DEBOUNCE_DELAY apart.
C14_EveryInputCommitted ==
    \A el \in DefaultPageFields : Pending(el) ~> Committed(el)

\* the debounced write to the list changes the record the user edited, which
\* is still at the index of its row, and adds no element and no missing id
EditsOwnRecord(after, before, index, row) ==
    /\ index < Len(before)
    /\ before[index + 1] = row
    /\ Len(after) = Len(before)
    /\ \A k \in 1..Len(after) : after[k] # Hole /\ idOf(after[k]) # <<>>

\* what claim C15 says of the debounced write of a pending edit
PendingEditEffect ==
    LET el == debounceTimer.el
    IN  CASE el.table = "plans" ->
               /\ EditsOwnRecord(state'.vendor_plans, state.vendor_plans,
                                 el.index, debounceTimer.row)
               /\ state'.environments = state.environments
          [] el.table = "envs" ->
               /\ EditsOwnRecord(state'.environments, state.environments,
                                 el.index, debounceTimer.row)
               /\ state'.vendor_plans = state.vendor_plans
          [] el.table = "assignment" ->
               \A key \in DOMAIN state'.plan_assignment \ DOMAIN state.plan_assignment :
                   \E k \in 1..Len(state'.environments) :
                       /\ state'.environments[k] # Hole
                       /\ idOf(state'.environments[k]) = <<key>>

\* C15: however a pending debounced edit is interleaved with delete-plan,
\* delete-env and reset clicks made before the timer fires, the edit changes
\* only the record the user edited, no other plan or environment, creates no
\* list element without an id, and leaves no plan_assignment key for an
\* environment that no longer exists.
C15_PendingEditOwnRecordOnly ==
    [][TimerFires => PendingEditEffect]_vars

====
